---- MODULE Spec2Model ----
(***************************************************************************)
(* Kinvey.Store.Cached (src/src/store/Cached.js): the cached store that    *)
(* bridges the AppData (network) store and the local database according to *)
(* a caching policy.                                                       *)
(*                                                                         *)
(* A logical call (aggregate, query, queryWithQuery, save, remove,         *)
(* removeWithQuery) lives in a slot.  The record of a slot holds the       *)
(* call's options object (policy, the closure currently stored in          *)
(* options.error), the variable invoked captured by the success wrapper of *)
(* _read, the backend calls that were issued and have not yet invoked a    *)
(* callback, and the trace of everything that happened on behalf of the    *)
(* call.  Every call gets an options object of its own, so fnSuccess and   *)
(* fnError are the caller's (or the instance's) callbacks.                 *)
(***************************************************************************)
EXTENDS Naturals, Sequences, FiniteSets, TLC

\* Number of logical calls that can be in flight at the same time.
MaxInFlight == 1

Slots == 1..MaxInFlight

\* Cache policies (Cached.js:363-391).
NO_CACHE == "nocache"
CACHE_ONLY == "cacheonly"
CACHE_FIRST == "cachefirst"
NETWORK_FIRST == "networkfirst"
BOTH == "both"

Policies == {NO_CACHE, CACHE_ONLY, CACHE_FIRST, NETWORK_FIRST, BOTH}

ReadOps == {"aggregate", "query", "queryWithQuery"}
WriteOps == {"save", "remove", "removeWithQuery"}

\* Collections an instance is constructed for; "user" is the one _write
\* singles out.
Collections == {"user", "books"}

\* Operation argument (aggregation, id, query or object) handed in by the
\* caller.
Args == {"a1"}

\* Absent value: null/undefined in the source.
Null == "null"

\* AppData store options: the instance default ({}); the calls modelled here
\* pass no store options of their own.
DefaultStoreOptions == "s0"
StoreOptions == {}

\* What the backends answer.
RemoteResponses == {"netDoc", Null}
LocalResponses == {"dbDoc"}
RemoteErrors == {"netErr"}
LocalErrors == {"dbErr"}

\* response._id
IdOf(response) == IF response = "netDoc" THEN "id1" ELSE "id0"

\* info.network of a backend's callback: the AppData store tags what it
\* delivers as coming from the network, the database does not.
InfoNetwork(store) == store = "store"

VARIABLES collection, instPolicy, instStore, storeConfig, calls

vars == <<collection, instPolicy, instStore, storeConfig, calls>>

----------------------------------------------------------------------------
\* Trace events.  A single record shape, unused fields hold "-" / FALSE.
Ev(ev, store, op, arg, val, net) ==
  [ev |-> ev, store |-> store, op |-> op, arg |-> arg, val |-> val, net |-> net]

\* A pending backend call: role tells which callbacks it was handed.
\* n tells the puts of one logical call apart (0 for a backend call).
Pending(role, store, op, arg, val) ==
  [role |-> role, store |-> store, op |-> op, arg |-> arg, val |-> val,
   n |-> 0]

\* A slot no call has used yet.  error is the closure stored in
\* options.error: "app" (the caller's), "completeOnly" (Cached.js:217) or
\* "thenComplete" (Cached.js:227 and 345).
\* merged: the store sub-options the call's _options handed to
\* store.configure; seen: the configuration the AppData store held when it
\* was invoked for the call ("-" while it has not been).
\* prior: what earlier calls left in the options object the call was
\* handed, most recent first (empty for a fresh object): the closure
\* variables of the success wrapper found in options.success and the
\* closure found in options.error.  With a prior, "app" stands for the
\* closure the call found in options.error.
IdleCall ==
  [active |-> FALSE, op |-> "-", arg |-> "-", policy |-> "-",
   invoked |-> FALSE, error |-> "app", pend |-> {}, trace |-> <<>>,
   merged |-> "-", seen |-> "-", prior |-> <<>>]

----------------------------------------------------------------------------
\* Policy predicates.

\* Mutant: CACHE_FIRST is missing from the accepted policies.
_shouldCallBoth_OnlyBoth(policy) == policy \in {BOTH}

_shouldCallBoth(policy) == policy \in {CACHE_FIRST, BOTH}

\* Mutant: the second success handler is invoked whenever both stores are
\* called.
_shouldCallBothCallbacks_AsCallBoth(policy) == policy \in {CACHE_FIRST, BOTH}

\* Mutant: the test names the wrong policy.
_shouldCallBothCallbacks_CacheFirst(policy) == CACHE_FIRST = policy

_shouldCallBothCallbacks(policy) == BOTH = policy

\* Mutant: NETWORK_FIRST is missing from the accepted policies.
_shouldCallFallback_OnlyBoth(policy) == policy \in {CACHE_FIRST, BOTH}

\* Mutant: every policy that does not call both stores falls back.
_shouldCallFallback_CacheOnlyToo(policy) ==
  policy \in {CACHE_FIRST, BOTH, NETWORK_FIRST, CACHE_ONLY}

\* Mutant: only NETWORK_FIRST falls back, the policies that call both
\* stores do not.
_shouldCallFallback_OnlyNetworkFirst(policy) == policy \in {NETWORK_FIRST}

_shouldCallFallback(policy) ==
  _shouldCallBoth(policy) \/ policy \in {NETWORK_FIRST}

\* Mutant: NO_CACHE is missing from the accepted policies.
_shouldCallNetworkFirst_NoNoCache(policy) == policy \in {NETWORK_FIRST}

_shouldCallNetworkFirst(policy) == policy \in {NO_CACHE, NETWORK_FIRST}

\* Mutant: CACHE_FIRST is missing from the accepted policies.
_shouldUpdateCache_NoCacheFirst(policy) == policy \in {NETWORK_FIRST, BOTH}

_shouldUpdateCache(policy) == policy \in {CACHE_FIRST, NETWORK_FIRST, BOTH}

primaryStore(policy) == IF _shouldCallNetworkFirst(policy) THEN "store" ELSE "db"

secondaryStore(policy) == IF _shouldCallNetworkFirst(policy) THEN "db" ELSE "store"

----------------------------------------------------------------------------
\* The application's callbacks and the calls into the two backends.

\* The caller's success(response, info).
AppSuccess(c, response, net) ==
  [c EXCEPT !.trace = Append(@, Ev("success", "-", "-", "-", response, net))]

\* The caller's error(error, info).
AppError(c, error, net) ==
  [c EXCEPT !.trace = Append(@, Ev("error", "-", "-", "-", error, net))]

\* options.complete(): never replaced, always the caller's complete.
Complete(c) ==
  [c EXCEPT !.trace = Append(@, Ev("complete", "-", "-", "-", "-", FALSE))]

\* this.db.put(operation, key, value, { success: fn, error: fn }).
DbPut(c, operation, key, value) ==
  LET n == Cardinality({k \in DOMAIN c.trace : c.trace[k].ev = "put"}) + 1
      put == [Pending("put", "db", operation, key, value) EXCEPT !.n = n]
  IN  [c EXCEPT !.pend = @ \cup {put},
                !.trace =
                  Append(@, Ev("put", "db", operation, key, value, FALSE))]

\* someStore[operation](arg, options).
StoreCall(c, role, store, operation, arg) ==
  [c EXCEPT !.pend = @ \cup {Pending(role, store, operation, arg, "-")},
            !.trace = Append(@, Ev("call", store, operation, arg, "-", FALSE)),
            !.seen = IF store = "store" THEN storeConfig ELSE @]

----------------------------------------------------------------------------
\* The closures an options object holds.

RECURSIVE ReadSuccess(_, _, _)
RECURSIVE WriteSuccess(_, _, _, _)
RECURSIVE OptionsError(_, _, _)

\* fnSuccess(response, info): what _read and _write found in
\* options.success. For a fresh options object that is the caller's
\* success; for an object an earlier call was handed it is the wrapper that
\* call stored there, which runs with its own operation, arg and invoked
\* and with the options object as it is now.
FnSuccess(c, response, net) ==
  IF c.prior = <<>>
  THEN AppSuccess(c, response, net)
  ELSE LET w == Head(c.prior)
           inner == [c EXCEPT !.op = w.op, !.arg = w.arg,
                              !.invoked = w.invoked, !.prior = Tail(@)]
           r == IF w.op \in ReadOps
                THEN ReadSuccess(inner, response, net)
                ELSE WriteSuccess(inner, collection, response, net)
       IN  [r EXCEPT !.op = c.op, !.arg = c.arg, !.invoked = c.invoked,
                     !.prior = <<[w EXCEPT !.invoked = r.invoked]>> \o @]

\* fnError(error, info): what _read and _write found in options.error, the
\* caller's error or the closure an earlier call left there.
FnError(c, error, net) ==
  IF c.prior = <<>>
  THEN AppError(c, error, net)
  ELSE LET w == Head(c.prior)
           inner == [c EXCEPT !.error = w.error, !.prior = Tail(@)]
           r == OptionsError(inner, error, net)
       IN  [r EXCEPT !.error = c.error, !.prior = <<w>> \o @]

----------------------------------------------------------------------------
\* _read: the closures.

\* Mutant: the "else" of the final-pass test is lost, complete is triggered
\* next to the put as well.
ReadSuccess_NoElse(c, response, net) ==
  LET secondPass == c.invoked
      c1 == IF ~c.invoked \/ BOTH = c.policy
            THEN FnSuccess([c EXCEPT !.invoked = TRUE], response, net)
            ELSE c
      c2 == IF net /\ c.policy \in {CACHE_FIRST, NETWORK_FIRST, BOTH}
            THEN DbPut(c1, c.op, c.arg, response)
            ELSE c1
  IN  IF secondPass \/ c.policy \notin {CACHE_FIRST, BOTH}
      THEN Complete(c2)
      ELSE c2

\* Mutant: the cache is updated with every response, info.network is not
\* looked at.
ReadSuccess_AnyResponse(c, response, net) ==
  LET secondPass == c.invoked
      c1 == IF ~c.invoked \/ _shouldCallBothCallbacks(c.policy)
            THEN FnSuccess([c EXCEPT !.invoked = TRUE], response, net)
            ELSE c
  IN  IF _shouldUpdateCache(c.policy)
      THEN DbPut(c1, c.op, c.arg, response)
      ELSE IF secondPass \/ ~_shouldCallBoth(c.policy)
           THEN Complete(c1)
           ELSE c1

\* options.success as replaced by _read (Cached.js:189-208).
ReadSuccess(c, response, net) ==
  LET secondPass == c.invoked
      c1 == IF ~c.invoked \/ _shouldCallBothCallbacks(c.policy)
            THEN FnSuccess([c EXCEPT !.invoked = TRUE], response, net)
            ELSE c
  IN  IF net /\ _shouldUpdateCache(c.policy)
      THEN DbPut(c1, c.op, c.arg, response)
      ELSE IF secondPass \/ ~_shouldCallBoth(c.policy)
           THEN Complete(c1)
           ELSE c1

\* Mutant: the function that resets options.error after a success does
\* nothing.
OptionsError_SilentReset(c, error, net) ==
  CASE c.error = "app" -> FnError(c, error, net)
    [] c.error = "completeOnly" -> c
    [] c.error = "thenComplete" -> Complete(FnError(c, error, net))

\* options.error, whatever closure is stored there when it is invoked.
OptionsError(c, error, net) ==
  CASE c.error = "app" -> FnError(c, error, net)
    [] c.error = "completeOnly" -> Complete(c)
    [] c.error = "thenComplete" -> Complete(FnError(c, error, net))

\* Mutant: options.error is not reset before the secondary store is called.
PrimarySuccess_KeepError(c, response, net) ==
  LET c1 == ReadSuccess(c, response, net)
  IN  IF _shouldCallBoth(c.policy)
      THEN StoreCall(c1, "secondary", secondaryStore(c.policy), c.op, c.arg)
      ELSE c1

\* success handler handed to the primary store (Cached.js:212-222).
PrimarySuccess(c, response, net) ==
  LET c1 == ReadSuccess(c, response, net)
  IN  IF _shouldCallBoth(c.policy)
      THEN StoreCall([c1 EXCEPT !.error = "completeOnly"], "secondary",
                     secondaryStore(c.policy), c.op, c.arg)
      ELSE c1

\* Mutant: the fallback tries the primary store once more.
PrimaryError_Retry(c, error, net) ==
  IF _shouldCallFallback(c.policy)
  THEN StoreCall([c EXCEPT !.error = "thenComplete"], "secondary",
                 primaryStore(c.policy), c.op, c.arg)
  ELSE Complete(OptionsError(c, error, net))

\* error handler handed to the primary store (Cached.js:223-237).
PrimaryError(c, error, net) ==
  IF _shouldCallFallback(c.policy)
  THEN StoreCall([c EXCEPT !.error = "thenComplete"], "secondary",
                 secondaryStore(c.policy), c.op, c.arg)
  ELSE Complete(OptionsError(c, error, net))

\* _read(operation, arg, options) on a fresh options object.
_read(operation, arg, policy) ==
  StoreCall([IdleCall EXCEPT !.active = TRUE, !.op = operation,
                             !.arg = arg, !.policy = policy],
            "primary", primaryStore(policy), operation, arg)

----------------------------------------------------------------------------
\* _write: the closures.

\* Mutant: the read operations of the two invalidations are swapped.
cacheHandle_Swapped(coll, operation, arg, response) ==
  CASE operation = "remove" -> {<<"queryWithQuery", arg, Null>>}
    [] operation = "removeWithQuery" -> {<<"query", arg, Null>>}
    [] operation = "save" ->
         IF "user" # coll /\ Null # response
         THEN {<<"query", IdOf(response), response>>}
         ELSE {}
    [] OTHER -> {}

\* cacheHandle[operation] (Cached.js:322-331): the set holding the
\* directive <<read operation, key, value>>, empty when undefined.
cacheHandle(coll, operation, arg, response) ==
  CASE operation = "remove" -> {<<"query", arg, Null>>}
    [] operation = "removeWithQuery" -> {<<"queryWithQuery", arg, Null>>}
    [] operation = "save" ->
         IF "user" # coll /\ Null # response
         THEN {<<"query", IdOf(response), response>>}
         ELSE {}
    [] OTHER -> {}

\* Mutant: the cache is updated first, the application's handler is
\* triggered after the put has been issued.
WriteSuccess_PutFirst(c, coll, response, net) ==
  LET handle == cacheHandle(coll, c.op, c.arg, response)
  IN  IF _shouldUpdateCache(c.policy) /\ handle # {}
      THEN LET h == CHOOSE d \in handle : TRUE
           IN  FnSuccess(DbPut(c, h[1], h[2], h[3]), response, net)
      ELSE Complete(FnSuccess(c, response, net))

\* options.success as replaced by _write (Cached.js:313-344).
WriteSuccess(c, coll, response, net) ==
  LET c1 == FnSuccess(c, response, net)
      handle == cacheHandle(coll, c.op, c.arg, response)
  IN  IF _shouldUpdateCache(c.policy) /\ handle # {}
      THEN LET h == CHOOSE d \in handle : TRUE
           IN  DbPut(c1, h[1], h[2], h[3])
      ELSE Complete(c1)

\* options.error as replaced by _write (Cached.js:345-349).
WriteError(c, error, net) == OptionsError(c, error, net)

\* Mutant: the write goes to the store the policy would read first.
_write_ViaPrimary(operation, arg, policy) ==
  StoreCall([IdleCall EXCEPT !.active = TRUE, !.op = operation,
                             !.arg = arg, !.policy = policy,
                             !.error = "thenComplete"],
            "write", primaryStore(policy), operation, arg)

\* _write(operation, arg, options) on a fresh options object.
_write(operation, arg, policy) ==
  StoreCall([IdleCall EXCEPT !.active = TRUE, !.op = operation,
                             !.arg = arg, !.policy = policy,
                             !.error = "thenComplete"],
            "write", "store", operation, arg)

----------------------------------------------------------------------------
\* Options.

\* _options(options): the effective policy of the call; the AppData store is
\* configured with the call's store options or the instance's.
_options(policy) == IF policy # Null THEN policy ELSE instPolicy

\* options.store || this.options.store
storeOptions(store) == IF store # Null THEN store ELSE instStore

\* Mutant: configure leaves the AppData store as it is.
ConfigureStore_Never(store) == storeConfig' = storeConfig

\* this.store.configure(options.store || this.options.store)
ConfigureStore(store) == storeConfig' = storeOptions(store)

\* The call c that a public operation has begun: _options has configured
\* the AppData store before _read or _write made the first backend call, so
\* that call, when it went to the AppData store, found the configuration
\* just set.
Begun(c, store) ==
  [c EXCEPT !.merged = storeOptions(store),
            !.seen = IF @ = "-" THEN @ ELSE storeConfig']

\* A slot is free when no call uses it or its call has nothing in flight.
Free(i) == calls[i].pend = {}

----------------------------------------------------------------------------
\* Initial state: constructor(collection), policy NETWORK_FIRST, store { }.
Init ==
  /\ collection \in Collections
  /\ instPolicy = NETWORK_FIRST
  /\ instStore = DefaultStoreOptions
  /\ storeConfig = DefaultStoreOptions
  /\ calls = [i \in Slots |-> IdleCall]

Read(i, operation, arg, policy, store) ==
  /\ Free(i)
  /\ ConfigureStore(store)
  /\ calls' = [calls EXCEPT
                 ![i] = Begun(_read(operation, arg, _options(policy)), store)]
  /\ UNCHANGED <<collection, instPolicy, instStore>>

Write(i, operation, arg, policy, store) ==
  /\ Free(i)
  /\ ConfigureStore(store)
  /\ calls' = [calls EXCEPT
                 ![i] = Begun(_write(operation, arg, _options(policy)), store)]
  /\ UNCHANGED <<collection, instPolicy, instStore>>

aggregate(i, arg, policy, store) == Read(i, "aggregate", arg, policy, store)

query(i, arg, policy, store) == Read(i, "query", arg, policy, store)

queryWithQuery(i, arg, policy, store) ==
  Read(i, "queryWithQuery", arg, policy, store)

remove(i, arg, policy, store) == Write(i, "remove", arg, policy, store)

removeWithQuery(i, arg, policy, store) ==
  Write(i, "removeWithQuery", arg, policy, store)

save(i, arg, policy, store) == Write(i, "save", arg, policy, store)

----------------------------------------------------------------------------
\* The backends invoke the callbacks they were handed.

\* The call after pending call p has been answered.
Answered(c, p, ev, val) ==
  [c EXCEPT !.pend = @ \ {p},
            !.trace = Append(@, Ev(ev, p.store, p.op, p.arg, val,
                                   InfoNetwork(p.store)))]

\* options.success(response, info) of the options handed to call p.
OnSuccess(c, p, response) ==
  LET c0 == Answered(c, p, "ret", response)
      net == InfoNetwork(p.store)
  IN  CASE p.role = "primary" -> PrimarySuccess(c0, response, net)
        [] p.role = "secondary" -> ReadSuccess(c0, response, net)
        [] p.role = "write" -> WriteSuccess(c0, collection, response, net)

\* options.error(error, info) of the options handed to call p.
OnError(c, p, error) ==
  LET c0 == Answered(c, p, "fail", error)
      net == InfoNetwork(p.store)
  IN  CASE p.role = "primary" -> PrimaryError(c0, error, net)
        [] p.role = "secondary" -> OptionsError(c0, error, net)
        [] p.role = "write" -> WriteError(c0, error, net)

StoreSucceeds(i, p, response) ==
  /\ p \in calls[i].pend
  /\ p.store = "store"
  /\ calls' = [calls EXCEPT ![i] = OnSuccess(@, p, response)]
  /\ UNCHANGED <<collection, instPolicy, instStore, storeConfig>>

StoreFails(i, p, error) ==
  /\ p \in calls[i].pend
  /\ p.store = "store"
  /\ calls' = [calls EXCEPT ![i] = OnError(@, p, error)]
  /\ UNCHANGED <<collection, instPolicy, instStore, storeConfig>>

DbSucceeds(i, p, response) ==
  /\ p \in calls[i].pend
  /\ p.store = "db"
  /\ p.role # "put"
  /\ calls' = [calls EXCEPT ![i] = OnSuccess(@, p, response)]
  /\ UNCHANGED <<collection, instPolicy, instStore, storeConfig>>

DbFails(i, p, error) ==
  /\ p \in calls[i].pend
  /\ p.store = "db"
  /\ p.role # "put"
  /\ calls' = [calls EXCEPT ![i] = OnError(@, p, error)]
  /\ UNCHANGED <<collection, instPolicy, instStore, storeConfig>>

\* success of db.put: fn, which calls options.complete().
PutSucceeds(i, p) ==
  /\ p \in calls[i].pend
  /\ p.role = "put"
  /\ calls' = [calls EXCEPT ![i] = Complete(Answered(@, p, "putDone", p.val))]
  /\ UNCHANGED <<collection, instPolicy, instStore, storeConfig>>

\* Mutant: the put is handed options.error as its error callback.
PutFails_OptionsError(i, p) ==
  /\ p \in calls[i].pend
  /\ p.role = "put"
  /\ calls' = [calls EXCEPT ![i] =
                 OptionsError(Answered(@, p, "putFail", p.val), "dbErr", FALSE)]
  /\ UNCHANGED <<collection, instPolicy, instStore, storeConfig>>

\* error of db.put: the same fn.
PutFails(i, p) ==
  /\ p \in calls[i].pend
  /\ p.role = "put"
  /\ calls' = [calls EXCEPT ![i] = Complete(Answered(@, p, "putFail", p.val))]
  /\ UNCHANGED <<collection, instPolicy, instStore, storeConfig>>

----------------------------------------------------------------------------
PolicyOption == Policies \cup {Null}
StoreOption == StoreOptions \cup {Null}

\* The steps of the calls that live in the slots of S, made with the
\* policy options of PolicyOpts and the store sub-options of StoreOpts.
NextOn(S, PolicyOpts, StoreOpts) ==
  \/ \E i \in S, arg \in Args, policy \in PolicyOpts, store \in StoreOpts :
        aggregate(i, arg, policy, store)
  \/ \E i \in S, arg \in Args, policy \in PolicyOpts, store \in StoreOpts :
        query(i, arg, policy, store)
  \/ \E i \in S, arg \in Args, policy \in PolicyOpts, store \in StoreOpts :
        queryWithQuery(i, arg, policy, store)
  \/ \E i \in S, arg \in Args, policy \in PolicyOpts, store \in StoreOpts :
        remove(i, arg, policy, store)
  \/ \E i \in S, arg \in Args, policy \in PolicyOpts, store \in StoreOpts :
        removeWithQuery(i, arg, policy, store)
  \/ \E i \in S, arg \in Args, policy \in PolicyOpts, store \in StoreOpts :
        save(i, arg, policy, store)
  \/ \E i \in S : \E p \in calls[i].pend, response \in RemoteResponses :
        StoreSucceeds(i, p, response)
  \/ \E i \in S : \E p \in calls[i].pend, error \in RemoteErrors :
        StoreFails(i, p, error)
  \/ \E i \in S : \E p \in calls[i].pend, response \in LocalResponses :
        DbSucceeds(i, p, response)
  \/ \E i \in S : \E p \in calls[i].pend, error \in LocalErrors :
        DbFails(i, p, error)
  \/ \E i \in S : \E p \in calls[i].pend : PutSucceeds(i, p)
  \/ \E i \in S : \E p \in calls[i].pend : PutFails(i, p)

Next == NextOn(Slots, PolicyOption, StoreOption)

Spec == Init /\ [][Next]_vars

\* A backend invokes one of the callbacks of a call it was handed by slot i.
Answer(i) ==
  \E p \in calls[i].pend :
    \/ \E response \in RemoteResponses : StoreSucceeds(i, p, response)
    \/ \E error \in RemoteErrors : StoreFails(i, p, error)
    \/ \E response \in LocalResponses : DbSucceeds(i, p, response)
    \/ \E error \in LocalErrors : DbFails(i, p, error)
    \/ PutSucceeds(i, p)
    \/ PutFails(i, p)

\* Calls that bring their own options object share nothing their callbacks
\* read, so progress is followed for the calls of one slot.
LiveSlots == {1}

LiveNext == NextOn(LiveSlots, PolicyOption, StoreOption)

\* The backends answer every call they are handed: the orchestrator has no
\* timeout, it is driven by the backends' callbacks alone.
LiveSpec ==
  Init /\ [][LiveNext]_vars /\ \A i \in LiveSlots : WF_vars(Answer(i))

\* _options accepts whatever options.policy holds: a value that is none of
\* the five constants is kept as it is.
UnknownPolicy == "typo"

\* Calls whose options name none of the five policies: no policy at all, or
\* an unknown one.
UnlistedPolicyOption == {UnknownPolicy, Null}

UnlistedNext == NextOn(Slots, UnlistedPolicyOption, StoreOption)

UnlistedSpec == Init /\ [][UnlistedNext]_vars

\* Two operations in flight on one instance, each called with store
\* sub-options of its own.
RaceSlots == {1, 2}

RaceStoreOptions == {"s1", "s2"}

\* A policy that reads the AppData store second, after the local answer,
\* and one that reads it first.
RacePolicies == {CACHE_FIRST, NETWORK_FIRST}

RaceInit ==
  /\ collection = "books"
  /\ instPolicy = NETWORK_FIRST
  /\ instStore = DefaultStoreOptions
  /\ storeConfig = DefaultStoreOptions
  /\ calls = [i \in RaceSlots |-> IdleCall]

RaceNext == NextOn(RaceSlots, RacePolicies, RaceStoreOptions)

RaceSpec == RaceInit /\ [][RaceNext]_vars

----------------------------------------------------------------------------
\* A caller that hands the options object of a finished call to its next
\* call.  _options and the wrappers write into that object (Cached.js:157-166,
\* 189, 217, 227, 313, 345), so the next call finds there what the earlier
\* one stored.

\* How many times an options object is handed on.
MaxReuse == 1

\* What the call c leaves in its options object: the closure variables of
\* the wrapper it stored in options.success, and its options.error.
Leftover(c) ==
  [op |-> c.op, arg |-> c.arg, invoked |-> c.invoked, error |-> c.error]

\* The call c, begun with the options object the call old was handed.
SameOptions(c, old) == [c EXCEPT !.prior = <<Leftover(old)>> \o old.prior]

\* The call in slot i is over and its options object can be handed on.
Reusable(i) ==
  /\ calls[i].active
  /\ calls[i].pend = {}
  /\ Len(calls[i].prior) < MaxReuse

\* aggregate, query or queryWithQuery, called with the options object of
\* the call before: policy and store are the ones that object holds.
ReadAgain(i, operation, arg) ==
  /\ Reusable(i)
  /\ ConfigureStore(calls[i].merged)
  /\ calls' = [calls EXCEPT
                 ![i] = Begun(SameOptions(_read(operation, arg, @.policy), @),
                              @.merged)]
  /\ UNCHANGED <<collection, instPolicy, instStore>>

\* remove, removeWithQuery or save, called with the options object of the
\* call before.
WriteAgain(i, operation, arg) ==
  /\ Reusable(i)
  /\ ConfigureStore(calls[i].merged)
  /\ calls' = [calls EXCEPT
                 ![i] = Begun(SameOptions(_write(operation, arg, @.policy), @),
                              @.merged)]
  /\ UNCHANGED <<collection, instPolicy, instStore>>

ReuseNext ==
  \/ NextOn(Slots, PolicyOption, StoreOption)
  \/ \E i \in Slots, operation \in ReadOps, arg \in Args :
        ReadAgain(i, operation, arg)
  \/ \E i \in Slots, operation \in WriteOps, arg \in Args :
        WriteAgain(i, operation, arg)

ReuseSpec == Init /\ [][ReuseNext]_vars

----------------------------------------------------------------------------
\* An object is saved and, once that call is over, removed.

\* The object: the document the AppData store returns for it when it is
\* saved; its identity is IdOf(SavedObject).
SavedObject == "netDoc"

SaveRemoveSlots == {1, 2}

SaveRemoveInit ==
  /\ collection \in Collections
  /\ instPolicy = NETWORK_FIRST
  /\ instStore = DefaultStoreOptions
  /\ storeConfig = DefaultStoreOptions
  /\ calls = [i \in SaveRemoveSlots |-> IdleCall]

SaveRemoveNext ==
  \/ \E policy \in PolicyOption, store \in StoreOption :
        /\ ~calls[1].active
        /\ save(1, SavedObject, policy, store)
  \/ \E policy \in PolicyOption, store \in StoreOption :
        /\ calls[1].active /\ calls[1].pend = {}
        /\ ~calls[2].active
        /\ remove(2, SavedObject, policy, store)
  \/ \E i \in SaveRemoveSlots :
        \E p \in calls[i].pend, response \in RemoteResponses :
          StoreSucceeds(i, p, response)
  \/ \E i \in SaveRemoveSlots :
        \E p \in calls[i].pend, error \in RemoteErrors :
          StoreFails(i, p, error)
  \/ \E i \in SaveRemoveSlots : \E p \in calls[i].pend : PutSucceeds(i, p)
  \/ \E i \in SaveRemoveSlots : \E p \in calls[i].pend : PutFails(i, p)

SaveRemoveSpec == SaveRemoveInit /\ [][SaveRemoveNext]_vars

\* The local store, as far as put goes: one entry per read operation and
\* key, Null where nothing is held.
DbKeys == Args \cup {SavedObject, IdOf(SavedObject), IdOf(Null)}

EmptyDb == [slot \in ReadOps \X DbKeys |-> Null]

\* put(operation, key, value): the entry of (operation, key) takes the
\* value; a null value leaves the entry empty.
Put(db, operation, key, value) == [db EXCEPT ![<<operation, key>>] = value]

\* The local store after the puts of call c that succeeded.
AfterPuts(db, c) ==
  LET done == {k \in DOMAIN c.trace :
                 /\ c.trace[k].ev = "put"
                 /\ \E j \in DOMAIN c.trace :
                      j > k /\ c.trace[j].ev = "putDone"}
  IN  IF done = {}
      THEN db
      ELSE LET put == c.trace[CHOOSE k \in done : TRUE]
           IN  Put(db, put.op, put.arg, put.val)

\* The local store after the save and then the remove.
LocalStore == AfterPuts(AfterPuts(EmptyDb, calls[1]), calls[2])

----------------------------------------------------------------------------
\* Reading a call's trace.

\* Positions of the events of the kinds in evs.
At(c, evs) == {k \in DOMAIN c.trace : c.trace[k].ev \in evs}

Count(c, evs) == Cardinality(At(c, evs))

\* The events of the kinds in evs, in order.
Events(c, evs) == SelectSeq(c.trace, LAMBDA e : e.ev \in evs)

\* Positions of the backend answers of kind ev given by store to operations
\* (not puts).
Answers(c, ev, store) ==
  {k \in DOMAIN c.trace : c.trace[k].ev = ev /\ c.trace[k].store = store}

\* Every backend call and put of the call has invoked a callback.
Settled(c) == c.active /\ c.pend = {}

IsRead(c) == c.active /\ c.op \in ReadOps

IsWrite(c) == c.active /\ c.op \in WriteOps

\* A put of the call has been issued and not yet answered.
PutPending(c) == \E p \in c.pend : p.role = "put"

----------------------------------------------------------------------------
\* C1: for every policy, operation and combination of backend outcomes, the
\* caller's complete callback is invoked exactly once per logical call (at
\* most once while backend calls are in flight, exactly once when all of
\* them have answered), and no success or error callback is invoked after
\* it.
C1_CompleteOnceAndLast ==
  \A i \in Slots :
    LET c == calls[i]
    IN  /\ Count(c, {"complete"}) <= 1
        /\ Settled(c) => Count(c, {"complete"}) = 1
        /\ \A j \in At(c, {"complete"}) :
             \A k \in At(c, {"success", "error"}) : k < j

\* A read that used both stores and a put has settled.
C1_Witness ==
  \E i \in Slots :
    /\ Settled(calls[i])
    /\ Count(calls[i], {"call"}) = 2
    /\ Count(calls[i], {"put"}) = 1
    /\ Count(calls[i], {"complete"}) = 1

\* C2 (as stated): exactly one success-or-error notification, one in total,
\* reaches the caller per logical call, whatever the backend outcomes.
C2_Original ==
  \A i \in Slots :
    LET c == calls[i]
    IN  /\ Count(c, {"success", "error"}) <= 1
        /\ Settled(c) => Count(c, {"success", "error"}) = 1

\* The call is a read under BOTH whose local and remote read both
\* succeeded.
BothSucceeded(c) ==
  /\ IsRead(c)
  /\ c.policy = BOTH
  /\ Answers(c, "ret", "db") # {}
  /\ Answers(c, "ret", "store") # {}

\* C2 (amended): exactly one success-or-error notification reaches the
\* caller per logical call, except for a read under BOTH whose local and
\* remote read both succeed: there success is invoked twice and error never.
C2_OneNotificationExceptBoth ==
  \A i \in Slots :
    LET c == calls[i]
    IN  IF BothSucceeded(c)
        THEN Count(c, {"success"}) = 2 /\ Count(c, {"error"}) = 0
        ELSE /\ Count(c, {"success", "error"}) <= 1
             /\ Settled(c) => Count(c, {"success", "error"}) = 1

\* A settled read under BOTH that notified success twice.
C2_Witness ==
  \E i \in Slots :
    /\ Settled(calls[i])
    /\ BothSucceeded(calls[i])
    /\ Count(calls[i], {"success"}) = 2

\* C3: in no reachable state of a logical call have both success and error
\* been invoked; error is invoked at most once; a backend failure that
\* follows a success only triggers complete.
C3_NeverSuccessAndError ==
  \A i \in Slots :
    LET c == calls[i]
    IN  /\ ~(Count(c, {"success"}) > 0 /\ Count(c, {"error"}) > 0)
        /\ Count(c, {"error"}) <= 1
        /\ \A k \in At(c, {"fail"}) :
             (\E j \in At(c, {"success"}) : j < k) =>
               /\ k < Len(c.trace)
               /\ c.trace[k + 1].ev = "complete"

\* The secondary store failed after the caller had been notified of success.
C3_Witness ==
  \E i \in Slots :
    \E k \in At(calls[i], {"fail"}) :
      \E j \in At(calls[i], {"success"}) : j < k

\* C4: under BOTH, when the local (primary) read succeeds and then the remote
\* (secondary) read succeeds, success is invoked exactly twice, first with
\* the local response and then with the remote response, and complete fires
\* exactly once, only after the put of the remote response has answered.
C4_BothTwoSuccesses ==
  \A i \in Slots :
    LET c == calls[i]
        notified == Events(c, {"success", "error"})
    IN  BothSucceeded(c) =>
          \A l \in Answers(c, "ret", "db") : \A r \in Answers(c, "ret", "store") :
            /\ l < r
            /\ Len(notified) = 2
            /\ notified[1] = Ev("success", "-", "-", "-", c.trace[l].val, FALSE)
            /\ notified[2] = Ev("success", "-", "-", "-", c.trace[r].val, TRUE)
            /\ At(c, {"success"}) = {l + 1, r + 1}
            /\ Count(c, {"put"}) = 1
            /\ Count(c, {"complete"}) = IF PutPending(c) THEN 0 ELSE 1
            /\ \A k \in At(c, {"complete"}) :
                 k = Len(c.trace) /\ c.trace[k - 1].ev \in {"putDone", "putFail"}

\* Both reads succeeded under BOTH and the put has answered.
C4_Witness ==
  \E i \in Slots :
    /\ BothSucceeded(calls[i])
    /\ Settled(calls[i])
    /\ Count(calls[i], {"putDone"}) = 1

\* The call is a read under CACHE_FIRST whose local and remote read both
\* succeeded.
CacheFirstSucceeded(c) ==
  /\ IsRead(c)
  /\ c.policy = CACHE_FIRST
  /\ Answers(c, "ret", "db") # {}
  /\ Answers(c, "ret", "store") # {}

\* C5: under CACHE_FIRST, when the local (primary) read and the remote
\* (secondary) read both succeed, success is invoked exactly once, with the
\* local response; the remote response is put into the local store under the
\* call's (operation, argument) key, and complete fires only after that put
\* has answered.
C5_CacheFirstOneSuccess ==
  \A i \in Slots :
    LET c == calls[i]
        notified == Events(c, {"success", "error"})
        puts == Events(c, {"put"})
    IN  CacheFirstSucceeded(c) =>
          \A l \in Answers(c, "ret", "db") : \A r \in Answers(c, "ret", "store") :
            /\ l < r
            /\ notified = <<Ev("success", "-", "-", "-", c.trace[l].val, FALSE)>>
            /\ puts = <<Ev("put", "db", c.op, c.arg, c.trace[r].val, FALSE)>>
            /\ Count(c, {"complete"}) = IF PutPending(c) THEN 0 ELSE 1
            /\ \A k \in At(c, {"complete"}) :
                 k = Len(c.trace) /\ c.trace[k - 1].ev \in {"putDone", "putFail"}

\* Both reads succeeded under CACHE_FIRST and the put has answered.
C5_Witness ==
  \E i \in Slots :
    /\ CacheFirstSucceeded(calls[i])
    /\ Settled(calls[i])
    /\ Count(calls[i], {"putDone", "putFail"}) = 1

\* The call is a read under NETWORK_FIRST whose remote (primary) read failed.
NetworkFirstFailed(c) ==
  /\ IsRead(c)
  /\ c.policy = NETWORK_FIRST
  /\ Answers(c, "fail", "store") # {}

\* C6: under NETWORK_FIRST, when the remote (primary) read fails, the local
\* store is consulted exactly once and the caller's notification is exactly
\* the local store's outcome: success with the local response, or error
\* with the local store's error and info; the primary's error is never
\* delivered, no put is issued, and complete follows.
C6_NetworkFirstFallback ==
  \A i \in Slots :
    LET c == calls[i]
        notified == Events(c, {"success", "error", "complete"})
        local == {k \in DOMAIN c.trace :
                    c.trace[k].store = "db" /\ c.trace[k].ev \in {"ret", "fail"}}
    IN  NetworkFirstFailed(c) =>
          /\ Events(c, {"call"}) = <<Ev("call", "store", c.op, c.arg, "-", FALSE),
                                     Ev("call", "db", c.op, c.arg, "-", FALSE)>>
          /\ Count(c, {"put"}) = 0
          /\ \A k \in Answers(c, "fail", "store") :
               \A j \in At(c, {"error"}) : c.trace[j].val # c.trace[k].val
          /\ ~Settled(c) => notified = <<>>
          /\ Settled(c) =>
               \E k \in local :
                 /\ local = {k}
                 /\ notified =
                      <<Ev(IF c.trace[k].ev = "ret" THEN "success" ELSE "error",
                           "-", "-", "-", c.trace[k].val, FALSE),
                        Ev("complete", "-", "-", "-", "-", FALSE)>>

\* The fallback to the local store has answered with an error, which was
\* delivered.
C6_Witness ==
  \E i \in Slots :
    /\ NetworkFirstFailed(calls[i])
    /\ Settled(calls[i])
    /\ Answers(calls[i], "fail", "db") # {}

\* C7: under NO_CACHE the local store is never used: no operation, read or
\* write, succeeding or failing, issues a local read or a put, and a
\* failing remote read delivers the remote's error to the caller, with no
\* fallback, and complete right after it.
C7_NoCacheNeverLocal ==
  \A i \in Slots :
    LET c == calls[i]
    IN  (c.active /\ c.policy = NO_CACHE) =>
          /\ \A k \in DOMAIN c.trace : c.trace[k].store # "db"
          /\ \A k \in Answers(c, "fail", "store") :
               IsRead(c) =>
                 c.trace = <<Ev("call", "store", c.op, c.arg, "-", FALSE),
                             Ev("fail", "store", c.op, c.arg, c.trace[k].val, TRUE),
                             Ev("error", "-", "-", "-", c.trace[k].val, TRUE),
                             Ev("complete", "-", "-", "-", "-", FALSE)>>

\* A read under NO_CACHE failed.
C7_Witness ==
  \E i \in Slots :
    /\ IsRead(calls[i])
    /\ calls[i].policy = NO_CACHE
    /\ Answers(calls[i], "fail", "store") # {}

\* C8: under CACHE_ONLY no read (aggregate, query, queryWithQuery), whether
\* the local read succeeds or fails, invokes an operation of the remote
\* store; the read is resolved from the local store's outcome alone.
C8_CacheOnlyNeverRemote ==
  \A i \in Slots :
    LET c == calls[i]
        notified == Events(c, {"success", "error", "complete"})
    IN  (IsRead(c) /\ c.policy = CACHE_ONLY) =>
          /\ \A k \in DOMAIN c.trace : c.trace[k].store # "store"
          /\ Events(c, {"call"}) = <<Ev("call", "db", c.op, c.arg, "-", FALSE)>>
          /\ \A k \in At(c, {"ret", "fail"}) :
               notified =
                 <<Ev(IF c.trace[k].ev = "ret" THEN "success" ELSE "error",
                      "-", "-", "-", c.trace[k].val, FALSE),
                   Ev("complete", "-", "-", "-", "-", FALSE)>>

\* A read under CACHE_ONLY was resolved from a failing local read.
C8_Witness ==
  \E i \in Slots :
    /\ IsRead(calls[i])
    /\ calls[i].policy = CACHE_ONLY
    /\ Settled(calls[i])
    /\ Answers(calls[i], "fail", "db") # {}

\* C9 (as stated): for an instance on the "user" collection no operation
\* under any policy issues a local put with a non-null value.
C9_UserNeverCached ==
  collection = "user" =>
    \A i \in Slots :
      \A k \in At(calls[i], {"put"}) : calls[i].trace[k].val = Null

\* The puts a successful remote write with response must issue: the
\* directive of C10, as a sequence of put events.
ExpectedPuts(c, response) ==
  IF c.policy \in {CACHE_FIRST, NETWORK_FIRST, BOTH}
  THEN CASE c.op = "remove" -> <<Ev("put", "db", "query", c.arg, Null, FALSE)>>
         [] c.op = "removeWithQuery" ->
              <<Ev("put", "db", "queryWithQuery", c.arg, Null, FALSE)>>
         [] c.op = "save" ->
              IF response # Null /\ collection # "user"
              THEN <<Ev("put", "db", "query", IdOf(response), response, FALSE)>>
              ELSE <<>>
  ELSE <<>>

\* C10: after a successful remote write under CACHE_FIRST, NETWORK_FIRST or
\* BOTH exactly one put is issued: remove gives ("query", arg, null),
\* removeWithQuery gives ("queryWithQuery", arg, null), save gives ("query",
\* response._id, response) when the response is non-null and the collection
\* is not "user"; otherwise, and under NO_CACHE and CACHE_ONLY, no put is
\* issued and complete fires immediately.
C10_WriteDirective ==
  \A i \in Slots :
    LET c == calls[i]
    IN  IsWrite(c) =>
          \A k \in Answers(c, "ret", "store") :
            LET expected == ExpectedPuts(c, c.trace[k].val)
            IN  /\ Events(c, {"put"}) = expected
                /\ c.trace[k + 1] =
                     Ev("success", "-", "-", "-", c.trace[k].val, TRUE)
                /\ IF expected = <<>>
                   THEN /\ Len(c.trace) = k + 2
                        /\ c.trace[k + 2].ev = "complete"
                   ELSE /\ c.trace[k + 2] = expected[1]
                        /\ Count(c, {"complete"}) = IF PutPending(c) THEN 0 ELSE 1

\* A save on a collection other than "user" has put its response, and the
\* put has answered.
C10_Witness ==
  \E i \in Slots :
    /\ calls[i].op = "save"
    /\ Settled(calls[i])
    /\ \E k \in At(calls[i], {"put"}) : calls[i].trace[k].val # Null

\* C11: a failing cache put, on the read path or the write path, never
\* invokes the caller's error callback and never invokes success again: the
\* only thing that follows it is complete, once, exactly as after a
\* successful put.
C11_PutFailureSwallowed ==
  \A i \in Slots :
    LET c == calls[i]
    IN  \A k \in At(c, {"putFail", "putDone"}) :
          /\ Len(c.trace) = k + 1
          /\ c.trace[k + 1] = Ev("complete", "-", "-", "-", "-", FALSE)
          /\ Count(c, {"complete"}) = 1
          /\ \A j \in At(c, {"put"}) :
               /\ j < k
               /\ \A n \in At(c, {"success", "error"}) : n < j

\* A put failed: complete fired once and error never.
C11_Witness ==
  \E i \in Slots :
    /\ Count(calls[i], {"putFail"}) = 1
    /\ Count(calls[i], {"complete"}) = 1
    /\ Count(calls[i], {"error"}) = 0

\* C12: when the backends answer every call and every put they are handed,
\* complete eventually fires for the logical call, and in no state have all
\* issued calls been answered without complete having fired.
C12_CompleteEventually ==
  /\ [](\A i \in LiveSlots :
         Settled(calls[i]) => Count(calls[i], {"complete"}) >= 1)
  /\ \A i \in LiveSlots :
       (calls[i].pend # {}) ~>
         (Settled(calls[i]) /\ Count(calls[i], {"complete"}) = 1)

\* A call went through three backend answers (primary, secondary, put)
\* before complete fired.
C12_Witness ==
  \E i \in Slots :
    /\ Settled(calls[i])
    /\ Count(calls[i], {"ret", "fail", "putDone", "putFail"}) = 3
    /\ calls[i].trace[Len(calls[i].trace)].ev = "complete"

\* C13: a call whose policy is not one of the five enumerated values is
\* rejected before anything is dispatched: such a call never reaches a
\* backend.
C13_UnknownPolicyRejected ==
  \A i \in Slots :
    calls[i].policy \notin Policies => Count(calls[i], {"call"}) = 0
ResolverRow(policy) ==
  /\ _shouldCallNetworkFirst(policy) <=> policy \in {NO_CACHE, NETWORK_FIRST}
  /\ _shouldCallBoth(policy) <=> policy \in {CACHE_FIRST, BOTH}
  /\ _shouldUpdateCache(policy) <=>
       policy \in {CACHE_FIRST, NETWORK_FIRST, BOTH}
  /\ _shouldCallFallback(policy) <=>
       (_shouldCallBoth(policy) \/ policy = NETWORK_FIRST)
  /\ _shouldCallFallback(policy) <=>
       policy \in {CACHE_FIRST, NETWORK_FIRST, BOTH}
  /\ _shouldCallBothCallbacks(policy) <=> policy = BOTH

\* C15: the policy predicates give, for each of the five policies (and so
\* for the policy of every call made), the values of the resolver table:
\* network first exactly for NO_CACHE and NETWORK_FIRST, both stores exactly
\* for CACHE_FIRST and BOTH, cache update exactly for CACHE_FIRST,
\* NETWORK_FIRST and BOTH, fallback exactly when both stores are called or
\* the policy is NETWORK_FIRST, both callbacks exactly for BOTH.
C15_ResolverTable ==
  /\ \A policy \in Policies : ResolverRow(policy)
  /\ \A i \in Slots :
       calls[i].policy \in Policies => ResolverRow(calls[i].policy)

\* A read under NETWORK_FIRST went to the remote store first, and after its
\* failure fell back to the local store.
C15_Witness ==
  \E i \in Slots :
    /\ IsRead(calls[i])
    /\ calls[i].policy = NETWORK_FIRST
    /\ Len(calls[i].trace) >= 3
    /\ calls[i].trace[1].store = "store"
    /\ calls[i].trace[2].ev = "fail"
    /\ calls[i].trace[3].ev = "call"
    /\ calls[i].trace[3].store = "db"
\* C16: cache maintenance never delays the caller's result. When a put is
\* issued, the response that triggered it (the backend answer just before
\* it) has been dealt with: the caller's success has been delivered for the
\* logical operation, and between that answer and the put nothing but the
\* delivery of that response happens. Complete is never delivered while a
\* put of the operation is pending.
C16_PutAfterSuccess ==
  \A i \in Slots :
    LET c == calls[i]
    IN  /\ \A j \in At(c, {"put"}) :
             /\ \E k \in At(c, {"success"}) : k < j
             /\ \E r \in At(c, {"ret"}) :
                  /\ r < j
                  /\ \A k \in (r + 1)..(j - 1) :
                       c.trace[k] =
                         Ev("success", "-", "-", "-", c.trace[r].val, TRUE)
        /\ PutPending(c) => Count(c, {"complete"}) = 0

\* A write whose put is pending after the caller got its success.
C16_Witness ==
  \E i \in Slots :
    /\ IsWrite(calls[i])
    /\ PutPending(calls[i])
    /\ Count(calls[i], {"success"}) = 1
\* C17: within one logical read the first thing issued is the call of the
\* primary store (so it precedes any secondary call and any put); the
\* secondary store is called only after the primary call has been answered,
\* so the two are never pending together; and each store's read operation is
\* invoked at most once.
C17_PrimaryThenSecondary ==
  \A i \in Slots :
    LET c == calls[i]
        issued == Events(c, {"call"})
        primary == Ev("call", primaryStore(c.policy), c.op, c.arg, "-", FALSE)
        secondary ==
          Ev("call", secondaryStore(c.policy), c.op, c.arg, "-", FALSE)
    IN  IsRead(c) =>
          /\ c.trace[1] = primary
          /\ issued \in {<<primary>>, <<primary, secondary>>}
          /\ Cardinality({p \in c.pend : p.role # "put"}) <= 1
          /\ \A j \in At(c, {"call"}) :
                j > 1 => c.trace[2].ev \in {"ret", "fail"}
                         /\ c.trace[2].store = primaryStore(c.policy)

\* A read whose secondary call is pending after the primary one was
\* answered.
C17_Witness ==
  \E i \in Slots :
    /\ IsRead(calls[i])
    /\ Count(calls[i], {"call"}) = 2
    /\ \E p \in calls[i].pend : p.role = "secondary"
\* C18: on the read path a put is issued if and only if a successful
\* response tagged as coming from the network has been received and the
\* policy is CACHE_FIRST, NETWORK_FIRST or BOTH. The put is keyed by the
\* read's operation and argument and carries that response. A response of
\* the local store triggers no put, and a read issues at most one put.
C18_ReadPutIffNetwork ==
  \A i \in Slots :
    LET c == calls[i]
        network == {r \in At(c, {"ret"}) : c.trace[r].net}
        local == {r \in At(c, {"ret"}) : ~c.trace[r].net}
    IN  IsRead(c) =>
          /\ Count(c, {"put"}) <= 1
          /\ Count(c, {"put"}) = 1 <=>
               /\ network # {}
               /\ c.policy \in {CACHE_FIRST, NETWORK_FIRST, BOTH}
          /\ \A j \in At(c, {"put"}) :
               \E r \in network :
                 /\ r < j
                 /\ c.trace[j] =
                      Ev("put", "db", c.op, c.arg, c.trace[r].val, FALSE)
          /\ \A r \in local :
               r < Len(c.trace) => c.trace[r + 1].ev # "put"
                 /\ (c.trace[r + 1].ev = "success" /\ r + 1 < Len(c.trace)
                       => c.trace[r + 2].ev # "put")

\* A read under BOTH got a local response, which triggered no put, and
\* then a network response, which did.
C18_Witness ==
  \E i \in Slots :
    /\ BothSucceeded(calls[i])
    /\ Count(calls[i], {"put"}) = 1
    /\ calls[i].trace[Len(calls[i].trace)].ev = "put"
\* The call is a read under CACHE_FIRST or BOTH whose local read has failed.
LocalReadFailed(c) ==
  /\ IsRead(c)
  /\ c.policy \in {CACHE_FIRST, BOTH}
  /\ Answers(c, "fail", "db") # {}

\* C19: under CACHE_FIRST and under BOTH, when the local read fails the
\* remote store is read as fallback. When that read succeeds the caller
\* gets exactly one success, carrying the remote response, and no error; the
\* response is put into the local store and complete fires once, after the
\* put has settled. When the remote read fails as well the caller gets
\* exactly one error and then complete.
C19_LocalFailureFallback ==
  \A i \in Slots :
    LET c == calls[i]
        t == c.trace
        n == Len(t)
        dbCall == Ev("call", "db", c.op, c.arg, "-", FALSE)
        storeCall == Ev("call", "store", c.op, c.arg, "-", FALSE)
        complete == Ev("complete", "-", "-", "-", "-", FALSE)
    IN  LocalReadFailed(c) =>
          /\ n >= 3
          /\ t[1] = dbCall /\ t[2].ev = "fail" /\ t[3] = storeCall
          /\ n >= 4 /\ t[4].ev = "ret" =>
               /\ n = 6 \/ (n = 8 /\ Settled(c))
               /\ t[4].store = "store"
               /\ t[5] = Ev("success", "-", "-", "-", t[4].val, TRUE)
               /\ t[6] = Ev("put", "db", c.op, c.arg, t[4].val, FALSE)
               /\ n = 8 => t[7].ev \in {"putDone", "putFail"}
                            /\ t[8] = complete
          /\ n >= 4 /\ t[4].ev = "fail" =>
               /\ n = 6 /\ Settled(c)
               /\ t[4].store = "store"
               /\ t[5] = Ev("error", "-", "-", "-", t[4].val, TRUE)
               /\ t[6] = complete
          /\ n >= 4 => t[4].ev \in {"ret", "fail"}

\* The fallback succeeded and its put has settled.
C19_Witness ==
  \E i \in Slots :
    /\ LocalReadFailed(calls[i])
    /\ Settled(calls[i])
    /\ Count(calls[i], {"success"}) = 1
    /\ Count(calls[i], {"putDone"}) = 1

\* The fallback failed as well.
C19_WitnessBothFail ==
  \E i \in Slots :
    /\ LocalReadFailed(calls[i])
    /\ Settled(calls[i])
    /\ Count(calls[i], {"error"}) = 1
\* The AppData store has been invoked for the call.
RemoteInvoked(c) == c.active /\ c.seen # "-"

\* The AppData store was invoked for the call from _read or _write itself,
\* in the run that began with the call's own _options.
RemoteInvokedAtOnce(c) ==
  /\ RemoteInvoked(c)
  /\ c.trace[1].store = "store"

\* C20: the configuration of the AppData store is shared by the operations
\* of an instance and set by nothing but _options. An operation that
\* invokes the AppData store at once finds its own store sub-options there;
\* an operation that invokes it later, as the secondary store of a read,
\* finds the sub-options of whichever _options ran last, its own or those of
\* another operation begun in the meantime (the witness is that race).
C20_RemoteConfigShared ==
  /\ storeConfig \in
       {DefaultStoreOptions} \cup {calls[i].merged : i \in RaceSlots}
  /\ \A i \in RaceSlots :
       LET c == calls[i]
       IN  /\ RemoteInvokedAtOnce(c) => c.seen = c.merged
           /\ RemoteInvoked(c) => c.seen \in RaceStoreOptions
           /\ RemoteInvoked(c) /\ c.seen # c.merged =>
                /\ IsRead(c)
                /\ primaryStore(c.policy) = "db"
                /\ Count(c, {"call"}) = 2

\* The secondary remote call of a CACHE_FIRST read is pending, made while
\* the AppData store held the sub-options of the other operation, which is
\* still in flight.
C20_Witness ==
  \E i, j \in RaceSlots :
    /\ i # j
    /\ IsRead(calls[i])
    /\ calls[i].policy = CACHE_FIRST
    /\ \E p \in calls[i].pend : p.role = "secondary" /\ p.store = "store"
    /\ calls[j].pend # {}
    /\ calls[i].merged # calls[j].merged
    /\ calls[i].seen = calls[j].merged
\* The call was begun with the options object of an earlier call.
Reused(c) == c.active /\ c.prior # <<>>

\* C21: the notifications of a logical call do not depend on earlier calls.
\* A call that is handed the options object of an earlier call delivers at
\* most one complete and at most one put, and once settled it has delivered
\* exactly one complete and exactly one success or error to the caller (two
\* successes for a read under BOTH both of whose stores answered), as a
\* call with a fresh options object does.
C21_ReuseIndependent ==
  \A i \in Slots :
    LET c == calls[i]
    IN  Reused(c) =>
          /\ Count(c, {"complete"}) <= 1
          /\ Count(c, {"put"}) <= 1
          /\ Settled(c) =>
               /\ Count(c, {"complete"}) = 1
               /\ IF BothSucceeded(c)
                  THEN Count(c, {"success"}) = 2 /\ Count(c, {"error"}) = 0
                  ELSE Count(c, {"success", "error"}) = 1
\* The save of the object succeeded and cached it, then its remove succeeded
\* and its invalidation was carried out, both under a policy that updates
\* the cache.
SavedThenRemoved ==
  /\ calls[1].op = "save" /\ calls[2].op = "remove"
  /\ calls[1].arg = calls[2].arg
  /\ _shouldUpdateCache(calls[1].policy)
  /\ _shouldUpdateCache(calls[2].policy)
  /\ Count(calls[1], {"putDone"}) = 1
  /\ Count(calls[2], {"putDone"}) = 1

\* C22: after save(obj) has succeeded and its put has settled, and then
\* remove(obj) has succeeded and its invalidation has settled, the entry
\* that query(id) reads, ("query", identity of obj), no longer holds the
\* saved object: remove invalidates the key that save wrote.
C22_RemoveInvalidatesSaved ==
  SavedThenRemoved =>
    /\ LocalStore[<<"query", IdOf(calls[1].arg)>>] = Null
    /\ \A j \in At(calls[1], {"put"}), k \in At(calls[2], {"put"}) :
         /\ calls[1].trace[j].op = calls[2].trace[k].op
         /\ calls[1].trace[j].arg = calls[2].trace[k].arg
====
